---- MODULE Spec2Model ----
(***************************************************************************)
(* The string-builder append fusion pass (StringBuilderOptimization) and   *)
(* the constant string index folder (StringIndexer) of                     *)
(* src/hotspot/share/opto, as state machines over a sea-of-nodes graph.    *)
(*                                                                         *)
(* A graph is a function from node indices 1..unique to node records       *)
(* [kind, con, method, in]; in is the input array, in[k + 1] being the     *)
(* C++ in(k), and 0 stands for nullptr.  Def-use edges (outs) are derived  *)
(* from the input arrays, as they are in the compiler.                     *)
(***************************************************************************)
EXTENDS Integers, Sequences, FiniteSets, TLC

MaxChain == 3      \* longest append chain of an input graph
MaxForkChain == 2  \* longest chain of an input graph that has a control fork
MaxRuns == 2       \* optimize() invocations on one graph
MaxFusions == 4    \* cap on the calls one behaviour may create
MaxBuf == 3        \* longest backing byte array of a constant string

\* TypeFunc input slots, as create_append_char_char_call numbers them.
Control == 0
I_O == 1
Memory == 2
FramePtr == 3
ReturnAdr == 4
Parms == 5

VARIABLES
    nodes,        \* the graph: [1..unique -> node record]
    worklist,     \* Unique_Node_List worklist of optimize()
    pc,           \* "idle" | "loop" | "done": position inside optimize()
    run,          \* number of optimize() invocations started
    OptimizeStringConcat,   \* the VM flag read at line 16
    env,          \* classes on which append(char,char) resolves (find_method)
    orig,         \* history: the graph handed to the first optimize()
    atRun,        \* history: the graph at the start of the current run
    fusions,      \* history: one record per fusion step, in order
    str, index,   \* StringIndexer::_str, _index
    start_idx, end_idx,  \* StringIndexer::_start_idx, _end_idx
    littleEndian, \* whether the build defines VM_LITTLE_ENDIAN
    ipc,          \* "new" | "checked" | "optimized": last StringIndexer call
    can,          \* result of the last can_optimize()
    ret,          \* result of the last optimize(): a literal's value, -1 for nullptr
    intcons,      \* literal nodes made by _gvn->intcon
    reads,        \* history: array positions the last optimize() passed to byte_at
    answers       \* results of the signature predicates asked of one call

passVars == <<nodes, worklist, pc, run, OptimizeStringConcat, env, orig, atRun, fusions>>
idxVars == <<str, index, start_idx, end_idx, littleEndian, ipc, can, ret, intcons,
             reads>>
vars == <<nodes, worklist, pc, run, OptimizeStringConcat, env, orig, atRun, fusions,
          str, index, start_idx, end_idx, littleEndian, ipc, can, ret, intcons,
          reads, answers>>

-----------------------------------------------------------------------------
(* Methods and node records *)

NullMethod == [holder |-> "null", name |-> "null", sig |-> "null"]
Method(h, n, s) == [holder |-> h, name |-> n, sig |-> s]

StringBuilder_klass == "StringBuilder"
StringBuffer_klass == "StringBuffer"
append_name == "append"
char_signature == "(C)"
char_char_signature == "(CC)"

Node(k, c, m, i) == [kind |-> k, con |-> c, method |-> m, in |-> i]

\* C++ n->in(k); 0 when the slot does not exist
In(g, n, k) == IF k + 1 \in DOMAIN g[n].in THEN g[n].in[k + 1] ELSE 0

Range(s) == {s[i] : i \in DOMAIN s}

\* def-use edges of n
Outs(g, n) == {u \in DOMAIN g : \E j \in DOMAIN g[u].in : g[u].in[j] = n}

is_CallStaticJava(g, n) == g[n].kind = "CallStaticJava"
is_Proj(g, n) == g[n].kind = "Proj"

RECURSIVE is_CFG(_, _)
is_CFG(g, n) ==
    IF n = 0 THEN FALSE
    ELSE IF g[n].kind \in {"Start", "CallStaticJava", "Return"} THEN TRUE
    ELSE IF g[n].kind = "Proj" THEN g[n].con = Control /\ is_CFG(g, In(g, n, 0))
    ELSE FALSE

\* Node::unique_ctrl_out_or_null: the single CFG use, 0 when none or several
unique_ctrl_out_or_null(g, n) ==
    LET cs == {u \in Outs(g, n) : is_CFG(g, u) /\ u # n}
    IN IF Cardinality(cs) = 1 THEN CHOOSE u \in cs : TRUE ELSE 0

\* MultiNode::proj_out_or_null: the projections of n with the given _con
proj_out_or_null(g, n, which) ==
    {p \in Outs(g, n) : is_Proj(g, p) /\ g[p].con = which}

\* Compile::gvn_replace_by(n, nn): every use of n becomes a use of nn
gvn_replace_by(g, n, nn) ==
    [u \in DOMAIN g |->
        [g[u] EXCEPT !.in = [j \in DOMAIN g[u].in |->
                                IF g[u].in[j] = n THEN nn ELSE g[u].in[j]]]]

\* ciInstanceKlass::find_method(append, (CC)) against the class registry
find_method(e, klass, name, sig) ==
    IF klass \in e THEN Method(klass, name, sig) ELSE NullMethod

-----------------------------------------------------------------------------
(* StringBuilderOptimization *)

\* is_append_char_char_call without the holder comparison of lines 79-82
is_char_char_any_holder(g, call) ==
    LET method == g[call].method IN
    IF method = NullMethod THEN FALSE
    ELSE IF method.name # append_name THEN FALSE
    ELSE method.sig = char_char_signature

\* is_append_char_call without the signature comparison of line 65
is_append_any_signature(g, call) ==
    LET method == g[call].method IN
    IF method = NullMethod THEN FALSE
    ELSE IF method.holder # StringBuilder_klass /\ method.holder # StringBuffer_klass
         THEN FALSE
    ELSE method.name = append_name

is_append_char_call(g, call) ==
    LET method == g[call].method IN
    IF method = NullMethod THEN FALSE
    ELSE IF method.holder # StringBuilder_klass /\ method.holder # StringBuffer_klass
         THEN FALSE
    ELSE IF method.name # append_name THEN FALSE
    ELSE method.sig = char_signature

is_append_char_char_call(g, call) ==
    LET method == g[call].method IN
    IF method = NullMethod THEN FALSE
    ELSE IF method.holder # StringBuilder_klass /\ method.holder # StringBuffer_klass
         THEN FALSE
    ELSE IF method.name # append_name THEN FALSE
    ELSE method.sig = char_char_signature

\* find_next_append_char_call without the receiver comparison of line 146
find_next_any_receiver(g, call) ==
    LET ctrls == proj_out_or_null(g, call, Control)
        uses == {use \in UNION {Outs(g, ctrl) : ctrl \in ctrls} :
                    is_Proj(g, use) /\ g[use].con = Control}
        next_ctrls == {unique_ctrl_out_or_null(g, use) : use \in uses} \ {0}
    IN {next_ctrl \in next_ctrls :
            is_CallStaticJava(g, next_ctrl) /\ is_append_char_call(g, next_ctrl)}

\* find_next_append_char_call taking any control use of the projection at
\* line 141, not the unique one
find_next_any_ctrl_out(g, call) ==
    LET ctrls == proj_out_or_null(g, call, Control)
        uses == {use \in UNION {Outs(g, ctrl) : ctrl \in ctrls} :
                    is_Proj(g, use) /\ g[use].con = Control}
        next_ctrls == UNION {{u \in Outs(g, use) : is_CFG(g, u)} : use \in uses}
    IN {next_ctrl \in next_ctrls :
            /\ is_CallStaticJava(g, next_ctrl)
            /\ is_append_char_call(g, next_ctrl)
            /\ In(g, next_ctrl, Parms) = In(g, call, Parms)}

\* The calls find_next_append_char_call can return: the loop returns the first
\* qualifying use in def-use order, and that order is not part of the graph, so
\* every qualifying candidate is a possible result.  {} stands for nullptr.
find_next_append_char_call(g, call) ==
    LET ctrls == proj_out_or_null(g, call, Control)
        uses == {use \in UNION {Outs(g, ctrl) : ctrl \in ctrls} :
                    is_Proj(g, use) /\ g[use].con = Control}
        next_ctrls == {unique_ctrl_out_or_null(g, use) : use \in uses} \ {0}
    IN {next_ctrl \in next_ctrls :
            /\ is_CallStaticJava(g, next_ctrl)
            /\ is_append_char_call(g, next_ctrl)
            /\ In(g, next_ctrl, Parms) = In(g, call, Parms)}

\* PhaseGVN::transform on the node just built: the node itself, or a node
\* already in the graph with the same kind, target and inputs
transform(g, n) ==
    LET same == {m \in DOMAIN g : m # n /\ g[m] = g[n]}
    IN IF same = {} THEN n ELSE CHOOSE m \in same : \A k \in same : m <= k

\* The node create_append_char_char_call builds, or a node of kind "null"
\* when append(char,char) resolves on neither class.  The lookup goes to
\* StringBuilder first and to StringBuffer only when that fails; the method
\* found belongs to the class it was looked up on.  The value of
\* _gvn->transform(new_call) is dropped at line 200: the node returned, and
\* used by the caller, is new_call itself.
NullNode == Node("null", 0, NullMethod, <<>>)

\* create_append_char_char_call without the nullptr returns of lines 167-173
create_unresolved_call(g, e, original_call, receiver, char1, char2) ==
    Node("CallStaticJava", 0,
         Method(StringBuilder_klass, append_name, char_char_signature),
         << In(g, original_call, 0), In(g, original_call, 1),
            In(g, original_call, 2), In(g, original_call, 3),
            In(g, original_call, 4), receiver, char1, char2 >>)

\* create_append_char_char_call looking up char_signature at line 163
create_with_char_signature(g, e, original_call, receiver, char1, char2) ==
    LET m1 == find_method(e, StringBuilder_klass, append_name, char_signature)
        m2 == find_method(e, StringBuffer_klass, append_name, char_signature)
        method == IF m1 # NullMethod THEN m1 ELSE m2
    IN IF method = NullMethod THEN NullNode
       ELSE Node("CallStaticJava", 0, method,
                 << In(g, original_call, 0), In(g, original_call, 1),
                    In(g, original_call, 2), In(g, original_call, 3),
                    In(g, original_call, 4), receiver, char1, char2 >>)

\* create_append_char_char_call with the two character arguments exchanged
create_swapped_chars(g, e, original_call, receiver, char1, char2) ==
    LET m1 == find_method(e, StringBuilder_klass, append_name, char_char_signature)
        m2 == find_method(e, StringBuffer_klass, append_name, char_char_signature)
        method == IF m1 # NullMethod THEN m1 ELSE m2
    IN IF method = NullMethod THEN NullNode
       ELSE Node("CallStaticJava", 0, method,
                 << In(g, original_call, 0), In(g, original_call, 1),
                    In(g, original_call, 2), In(g, original_call, 3),
                    In(g, original_call, 4), receiver, char2, char1 >>)

create_append_char_char_call(g, e, original_call, receiver, char1, char2) ==
    LET m1 == find_method(e, StringBuilder_klass, append_name, char_char_signature)
        m2 == find_method(e, StringBuffer_klass, append_name, char_char_signature)
        method == IF m1 # NullMethod THEN m1 ELSE m2
    IN IF method = NullMethod THEN NullNode
       ELSE Node("CallStaticJava", 0, method,
                 << In(g, original_call, 0), In(g, original_call, 1),
                    In(g, original_call, 2), In(g, original_call, 3),
                    In(g, original_call, 4), receiver, char1, char2 >>)

\* optimize_append_char_call without the gvn_replace_by(call, new_call) of line 118
optimize_keeping_call(g, call, next_call, new_call) ==
    LET g1 == Append(g, new_call)
    IN gvn_replace_by(g1, next_call, In(g1, next_call, Parms))

\* The graph after lines 116-121 for a given next_call and new_call record
optimize_append_char_call(g, call, next_call, new_call) ==
    LET id == Len(g) + 1
        g1 == Append(g, new_call)
        g2 == gvn_replace_by(g1, call, id)
    IN gvn_replace_by(g2, next_call, In(g2, next_call, Parms))

-----------------------------------------------------------------------------
(* Input graphs: a control chain of K calls, optionally with a control fork *)

Start_idx == 1
Recvs == {6, 7}             \* two distinct receiver producers
ChainMethods ==
    { Method(StringBuilder_klass, append_name, char_signature),
      Method(StringBuffer_klass, append_name, char_signature),
      NullMethod }
Descs == [recv : Recvs, method : ChainMethods]

Value(c) == Node("Con", c, NullMethod, <<>>)
\* the incoming i_o, memory, frame pointer, return address and the two
\* receivers: distinct nodes that produce no control
Parm(k) == Node("Parm", k, NullMethod, <<>>)
Base == << Node("Start", 0, NullMethod, <<>>), Parm(1), Parm(2), Parm(3), Parm(4),
           Parm(5), Parm(6) >>
NBase == Len(Base)

charId(i) == NBase + 4 * (i - 1) + 1
callId(i) == NBase + 4 * (i - 1) + 2
pId(i) == NBase + 4 * (i - 1) + 3
qId(i) == NBase + 4 * (i - 1) + 4
charCode(i) == 96 + i

\* a call to d.method on d.recv with control input c and character node ch
CallNode(d, c, ch) ==
    Node("CallStaticJava", 0, d.method,
         IF d.method.sig = char_char_signature
         THEN << c, 2, 3, 4, 5, d.recv, ch, ch >>
         ELSE << c, 2, 3, 4, 5, d.recv, ch >>)
CtrlProj(c) == Node("Proj", Control, NullMethod, << c >>)
ReturnNode(c) == Node("Return", 0, NullMethod, << c >>)

\* the four nodes of the i-th call of the chain: character, call, its control
\* projection p, and the projection q the next call hangs on
ChainNodes(prog, i) ==
    << Value(charCode(i)),
       CallNode(prog[i], IF i = 1 THEN Start_idx ELSE qId(i - 1), charId(i)),
       CtrlProj(callId(i)),
       CtrlProj(pId(i)) >>

RECURSIVE Chain(_, _)
Chain(prog, i) ==
    IF i > Len(prog) THEN <<>> ELSE ChainNodes(prog, i) \o Chain(prog, i + 1)

\* A fork after call f.at: a second call with the descriptor of call f.at (so it
\* qualifies as a successor whenever call f.at is itself a candidate), hanging
\* either on a second projection of p ("proj") or on q itself ("call").
NoFork == [at |-> 0, kind |-> "none", desc |-> [recv |-> 6, method |-> NullMethod]]
Forks(prog) ==
    {[at |-> i, kind |-> k, desc |-> prog[i]] : i \in 1..Len(prog), k \in {"proj", "call"}}

\* A twin of calls f.at and f.at + 1: an append(char,char) call already in the
\* graph, on the control input, receiver and character nodes the combined
\* call of the two would get ("twin").
Twins(prog) ==
    {[at |-> i, kind |-> "twin",
      desc |-> [recv |-> prog[i].recv,
                method |-> Method(h, append_name, char_char_signature)]] :
        i \in 1..(Len(prog) - 1), h \in {StringBuilder_klass, StringBuffer_klass}}

ForkNodes(prog, f) ==
    LET K == Len(prog)
        n0 == NBase + 4 * K + 1          \* the Return of the chain
    IN IF f.kind = "none" THEN <<>>
       ELSE IF f.kind = "twin"
       THEN << Node("CallStaticJava", 0, f.desc.method,           \* n0 + 1
                    << IF f.at = 1 THEN Start_idx ELSE qId(f.at - 1), 2, 3, 4, 5,
                       f.desc.recv, charId(f.at), charId(f.at + 1) >>),
               CtrlProj(n0 + 1), CtrlProj(n0 + 2), ReturnNode(n0 + 3) >>
       ELSE IF f.kind = "proj"
       THEN << CtrlProj(pId(f.at)),                      \* n0 + 1
               Value(charCode(K + 1)),                   \* n0 + 2
               CallNode(f.desc, n0 + 1, n0 + 2),         \* n0 + 3
               CtrlProj(n0 + 3), CtrlProj(n0 + 4), ReturnNode(n0 + 5) >>
       ELSE << Value(charCode(K + 1)),                   \* n0 + 1
               CallNode(f.desc, qId(f.at), n0 + 1),      \* n0 + 2
               CtrlProj(n0 + 2), CtrlProj(n0 + 3), ReturnNode(n0 + 4) >>

BuildGraph(prog, f) ==
    Base \o Chain(prog, 1) \o << ReturnNode(qId(Len(prog))) >> \o ForkNodes(prog, f)

\* the two receivers are interchangeable: the first call is on the first one
Progs(maxLen) ==
    {prog \in UNION {[1..K -> Descs] : K \in 1..maxLen} : prog[1].recv = 6}
PlainInputs == {BuildGraph(prog, NoFork) : prog \in Progs(MaxChain)}
ForkInputs ==
    UNION {{BuildGraph(prog, f) : f \in Forks(prog)} : prog \in Progs(MaxForkChain)}
TwinInputs ==
    UNION {{BuildGraph(prog, f) : f \in Twins(prog)} : prog \in Progs(MaxForkChain)}
Inputs == PlainInputs \cup ForkInputs \cup TwinInputs

-----------------------------------------------------------------------------
(* Reading a graph: what the claims speak about *)

\* The calls that follow `call` on its control output (through the control
\* projection and the projection the successor hangs on) and qualify for a
\* fusion: single-character appends on the identical receiver node.
FusibleCandidates(g, call) ==
    {c \in DOMAIN g :
        /\ is_CallStaticJava(g, c) /\ is_append_char_call(g, c)
        /\ In(g, c, Parms) = In(g, call, Parms)
        /\ LET q == In(g, c, Control) IN
           /\ q # 0 /\ is_Proj(g, q) /\ g[q].con = Control
           /\ LET p == In(g, q, Control) IN
              /\ p # 0 /\ is_Proj(g, p) /\ g[p].con = Control
              /\ In(g, p, Control) = call}

\* y is the next call after x on x's control output
Adjacent(g, x, y) ==
    /\ is_CallStaticJava(g, x) /\ is_CallStaticJava(g, y)
    /\ LET q == In(g, y, Control) IN
       /\ q # 0 /\ is_Proj(g, q)
       /\ LET p == In(g, q, Control) IN
          p # 0 /\ is_Proj(g, p) /\ In(g, p, Control) = x

\* the character arguments of an append call, first operand first
CallChars(g, n) ==
    IF is_append_char_call(g, n) THEN << g[In(g, n, Parms + 1)].con >>
    ELSE IF is_append_char_char_call(g, n)
         THEN << g[In(g, n, Parms + 1)].con, g[In(g, n, Parms + 2)].con >>
    ELSE <<>>

\* The append calls on the control path that ends in n, in control order, read
\* by following control inputs back to Start; ok is FALSE when the path runs
\* into a node that produces no control.
RECURSIVE BackCalls(_, _)
BackCalls(g, n) ==
    IF n = 0 THEN [ok |-> FALSE, calls |-> <<>>]
    ELSE IF g[n].kind = "Start" THEN [ok |-> TRUE, calls |-> <<>>]
    ELSE IF g[n].kind = "CallStaticJava"
         THEN LET r == BackCalls(g, In(g, n, Control))
              IN [ok |-> r.ok,
                  calls |-> IF CallChars(g, n) = <<>> THEN r.calls
                            ELSE Append(r.calls, CallChars(g, n))]
    ELSE IF g[n].kind \in {"Proj", "Return"} THEN BackCalls(g, In(g, n, Control))
    ELSE [ok |-> FALSE, calls |-> <<>>]

RECURSIVE Flatten(_)
Flatten(ss) == IF ss = <<>> THEN <<>> ELSE Head(ss) \o Flatten(Tail(ss))

Returns(g) == {n \in DOMAIN g : g[n].kind = "Return"}
Calls(g) == {n \in DOMAIN g : is_CallStaticJava(g, n)}

\* a chain of single-character appends on one receiver, without a fork
PlainChain(g) ==
    /\ Cardinality(Returns(g)) = 1
    /\ \A c \in Calls(g) : is_append_char_call(g, c)
    /\ \A c, d \in Calls(g) : In(g, c, Parms) = In(g, d, Parms)

-----------------------------------------------------------------------------
(* StringBuilderOptimization::optimize as a state machine *)

\* append(char,char) resolves on no class, on StringBuffer only, or on
\* StringBuilder (where a second lookup on StringBuffer is never made)
Envs == { {}, {StringBuffer_klass}, {StringBuilder_klass, StringBuffer_klass} }

\* StringIndexer state of a behaviour that only runs the fusion pass
IdxIdle ==
    /\ str = [is_Con |-> FALSE, isa_oopptr |-> FALSE, const_oop |-> FALSE,
              value_is_type_array |-> FALSE, coder |-> "LATIN1", value |-> <<>>]
    /\ index = [is_Con |-> FALSE, type_is_con |-> FALSE, con |-> 0]
    /\ start_idx = 0 /\ end_idx = 0
    /\ littleEndian = TRUE
    /\ ipc = "new" /\ can = FALSE /\ ret = -1 /\ intcons = {} /\ reads = {}

Init ==
    /\ nodes \in Inputs
    /\ worklist = {}
    /\ pc = "idle"
    /\ run = 0
    /\ OptimizeStringConcat \in BOOLEAN
    /\ env \in Envs
    /\ orig = nodes
    /\ atRun = nodes
    /\ fusions = <<>>
    /\ IdxIdle
    /\ answers = {}

\* lines 16-18: the flag is off, optimize() returns at once
OptimizeDisabled ==
    /\ pc \in {"idle", "done"} /\ run < MaxRuns
    /\ ~OptimizeStringConcat
    /\ pc' = "done" /\ run' = run + 1 /\ atRun' = nodes
    /\ UNCHANGED <<nodes, worklist, OptimizeStringConcat, env, orig, fusions>>
    /\ UNCHANGED <<idxVars, answers>>

\* lines 21-32: seed the worklist with every append(char) call of the graph
Scan ==
    /\ pc \in {"idle", "done"} /\ run < MaxRuns
    /\ OptimizeStringConcat
    /\ worklist' = {n \in DOMAIN nodes :
                        is_CallStaticJava(nodes, n) /\ is_append_char_call(nodes, n)}
    /\ pc' = "loop" /\ run' = run + 1 /\ atRun' = nodes
    /\ UNCHANGED <<nodes, OptimizeStringConcat, env, orig, fusions>>
    /\ UNCHANGED <<idxVars, answers>>

\* lines 36-43, popped node fails the re-validation
PopSkip(n) ==
    /\ pc = "loop" /\ n \in worklist
    /\ ~(is_CallStaticJava(nodes, n) /\ is_append_char_call(nodes, n))
    /\ worklist' = worklist \ {n}
    /\ UNCHANGED <<nodes, pc, run, OptimizeStringConcat, env, orig, atRun, fusions>>
    /\ UNCHANGED <<idxVars, answers>>

\* lines 99-109: no next call found
PopDecline(n) ==
    /\ pc = "loop" /\ n \in worklist
    /\ is_CallStaticJava(nodes, n) /\ is_append_char_call(nodes, n)
    /\ find_next_append_char_call(nodes, n) = {}
    /\ worklist' = worklist \ {n}
    /\ UNCHANGED <<nodes, pc, run, OptimizeStringConcat, env, orig, atRun, fusions>>
    /\ UNCHANGED <<idxVars, answers>>

\* lines 109-116: a next call is found but create_append_char_char_call
\* returns nullptr
PopNoMethod(n) ==
    /\ pc = "loop" /\ n \in worklist
    /\ is_CallStaticJava(nodes, n) /\ is_append_char_call(nodes, n)
    /\ \E next_call \in find_next_append_char_call(nodes, n) :
         create_append_char_char_call(nodes, env, n, In(nodes, n, Parms),
             In(nodes, n, Parms + 1), In(nodes, next_call, Parms + 1)) = NullNode
    /\ worklist' = worklist \ {n}
    /\ UNCHANGED <<nodes, pc, run, OptimizeStringConcat, env, orig, atRun, fusions>>
    /\ UNCHANGED <<idxVars, answers>>

\* lines 109-125: the fusion step
PopFuse(n) ==
    /\ pc = "loop" /\ n \in worklist
    /\ Len(fusions) < MaxFusions
    /\ is_CallStaticJava(nodes, n) /\ is_append_char_call(nodes, n)
    /\ \E next_call \in find_next_append_char_call(nodes, n) :
         \E new_call \in {create_append_char_char_call(nodes, env, n,
                             In(nodes, n, Parms), In(nodes, n, Parms + 1),
                             In(nodes, next_call, Parms + 1))} :
            /\ new_call # NullNode
            /\ worklist' = (worklist \ {n}) \cup {Len(nodes) + 1}
            /\ nodes' = optimize_append_char_call(nodes, n, next_call, new_call)
            /\ fusions' = Append(fusions,
                            [call |-> n, next_call |-> next_call,
                             new_call |-> Len(nodes) + 1,
                             transformed |-> transform(Append(nodes, new_call),
                                                       Len(nodes) + 1),
                             call_in |-> nodes[n].in,
                             next_in |-> nodes[next_call].in,
                             call_uses |-> Outs(nodes, n),
                             next_uses |-> Outs(nodes, next_call),
                             candidates |-> FusibleCandidates(nodes, n),
                             run |-> run])
    /\ UNCHANGED <<pc, run, OptimizeStringConcat, env, orig, atRun>>
    /\ UNCHANGED <<idxVars, answers>>

\* line 35: the worklist is empty, optimize() returns
Return ==
    /\ pc = "loop" /\ worklist = {}
    /\ pc' = "done"
    /\ UNCHANGED <<nodes, worklist, run, OptimizeStringConcat, env, orig, atRun, fusions>>
    /\ UNCHANGED <<idxVars, answers>>

Next ==
    \/ OptimizeDisabled
    \/ Scan
    \/ \E n \in worklist : PopSkip(n)
    \/ \E n \in worklist : PopDecline(n)
    \/ \E n \in worklist : PopNoMethod(n)
    \/ \E n \in worklist : PopFuse(n)
    \/ Return

Spec == Init /\ [][Next]_vars

\* one iteration of the while loop of lines 35-44, or its exit
LoopStep ==
    \/ \E n \in worklist : PopSkip(n) \/ PopDecline(n) \/ PopNoMethod(n) \/ PopFuse(n)
    \/ Return

\* One invocation of optimize() on an input graph (the last one the bound on
\* invocations allows).
InitLive ==
    /\ nodes \in Inputs
    /\ worklist = {}
    /\ pc = "idle"
    /\ run = MaxRuns - 1
    /\ OptimizeStringConcat \in BOOLEAN
    /\ env \in Envs
    /\ orig = nodes
    /\ atRun = nodes
    /\ fusions = <<>>
    /\ IdxIdle
    /\ answers = {}

\* optimize() runs on one thread and nothing suspends it: a loop iteration
\* that can be taken is taken
SpecLive == InitLive /\ [][Next]_vars /\ WF_vars(LoopStep)

-----------------------------------------------------------------------------
(* StringIndexer *)

CODER_LATIN1 == "LATIN1"
CODER_UTF16 == "UTF16"
nullptr == -1

\* two's-complement views of the C++ integer types
jchar(x) == x % 65536                 \* (jchar) x
And0xFF(x) == x % 256                 \* x & 0xFF
Shl(x, k) == IF k = 0 THEN x ELSE x * 256     \* x << k for k in {0, 8}
RECURSIVE BitOr(_, _)
BitOr(a, b) ==
    IF a = 0 THEN b
    ELSE IF b = 0 THEN a
    ELSE (IF a % 2 = 1 \/ b % 2 = 1 THEN 1 ELSE 0) + 2 * BitOr(a \div 2, b \div 2)

AnyByte == -128..127

\* ciTypeArray::byte_at: the element, or any byte when the position is outside
\* the array (the product build reads past the buffer)
byte_at(array, i) ==
    IF 0 <= i /\ i < Len(array) THEN {array[i + 1]} ELSE AnyByte

is_constant_string(s) ==
    s.is_Con /\ s.isa_oopptr /\ s.const_oop

\* is_valid_range without the halving of line 82
is_valid_range_bytes(s, ix, st, en) ==
    IF ~ix.is_Con THEN [result |-> FALSE, start_idx |-> st, end_idx |-> en]
    ELSE IF ~ix.type_is_con THEN [result |-> FALSE, start_idx |-> st, end_idx |-> en]
    ELSE IF ix.con < 0 THEN [result |-> FALSE, start_idx |-> st, end_idx |-> en]
    ELSE IF ~s.value_is_type_array
         THEN [result |-> FALSE, start_idx |-> st, end_idx |-> en]
    ELSE [result |-> ix.con < Len(s.value), start_idx |-> ix.con,
          end_idx |-> ix.con + 1]

\* is_valid_range comparing index <= length at line 88
is_valid_range_inclusive(s, ix, st, en) ==
    IF ~ix.is_Con THEN [result |-> FALSE, start_idx |-> st, end_idx |-> en]
    ELSE IF ~ix.type_is_con THEN [result |-> FALSE, start_idx |-> st, end_idx |-> en]
    ELSE IF ix.con < 0 THEN [result |-> FALSE, start_idx |-> st, end_idx |-> en]
    ELSE IF ~s.value_is_type_array
         THEN [result |-> FALSE, start_idx |-> st, end_idx |-> en]
    ELSE LET array_length == Len(s.value)
             length == IF s.coder = CODER_UTF16 THEN array_length \div 2
                       ELSE array_length
         IN [result |-> ix.con <= length, start_idx |-> ix.con, end_idx |-> ix.con + 1]

\* is_valid_range with its writes to _start_idx and _end_idx
is_valid_range(s, ix, st, en) ==
    IF ~ix.is_Con THEN [result |-> FALSE, start_idx |-> st, end_idx |-> en]
    ELSE IF ~ix.type_is_con THEN [result |-> FALSE, start_idx |-> st, end_idx |-> en]
    ELSE IF ix.con < 0 THEN [result |-> FALSE, start_idx |-> st, end_idx |-> en]
    ELSE IF ~s.value_is_type_array
         THEN [result |-> FALSE, start_idx |-> st, end_idx |-> en]
    ELSE LET array_length == Len(s.value)
             length == IF s.coder = CODER_UTF16 THEN array_length \div 2
                       ELSE array_length
         IN [result |-> ix.con < length, start_idx |-> ix.con, end_idx |-> ix.con + 1]

\* can_optimize: is_constant_string() && is_valid_range(), short-circuit
can_optimize(s, ix, st, en) ==
    IF is_constant_string(s) THEN is_valid_range(s, ix, st, en)
    ELSE [result |-> FALSE, start_idx |-> st, end_idx |-> en]

\* the array positions generate_optimized_code passes to byte_at (lines 103,
\* 114, 115)
byte_at_positions(s, st) ==
    IF s.coder = CODER_LATIN1 THEN {st} ELSE {st * 2, st * 2 + 1}

\* generate_optimized_code without the & 0xFF masks of lines 103, 114, 115
generate_sign_extended(s, st, le) ==
    IF s.coder = CODER_LATIN1
    THEN {jchar(b) : b \in byte_at(s.value, st)}
    ELSE LET shift_high == IF le THEN 0 ELSE 8
             shift_low == IF le THEN 8 ELSE 0
         IN {jchar(BitOr(Shl(jchar(x), shift_high), Shl(jchar(y), shift_low))) :
                x \in byte_at(s.value, st * 2), y \in byte_at(s.value, st * 2 + 1)}

\* the character values generate_optimized_code can pass to intcon
generate_optimized_code(s, st, le) ==
    IF s.coder = CODER_LATIN1
    THEN {jchar(And0xFF(b)) : b \in byte_at(s.value, st)}
    ELSE LET shift_high == IF le THEN 0 ELSE 8
             shift_low == IF le THEN 8 ELSE 0
         IN {jchar(BitOr(Shl(And0xFF(jchar(x)), shift_high),
                         Shl(And0xFF(jchar(y)), shift_low))) :
                x \in byte_at(s.value, st * 2), y \in byte_at(s.value, st * 2 + 1)}

\* optimize() that only asks is_constant_string() before folding
optimize_unchecked_range(s, ix, st, en, le) ==
    LET c == can_optimize(s, ix, st, en)
    IN IF ~is_constant_string(s) THEN {nullptr}
       ELSE generate_optimized_code(s, c.start_idx, le)

\* optimize(): the values it can return, nullptr when can_optimize() is false
optimize(s, ix, st, en, le) ==
    LET c == can_optimize(s, ix, st, en)
    IN IF ~c.result THEN {nullptr}
       ELSE generate_optimized_code(s, c.start_idx, le)

ByteVals == {-128, 65, 66}
Bytes == UNION {[1..n -> ByteVals] : n \in 0..MaxBuf}
Strs ==
    { [is_Con |-> sh[1], isa_oopptr |-> sh[2], const_oop |-> sh[3],
       value_is_type_array |-> sh[4], coder |-> c, value |-> v] :
        sh \in { <<FALSE, TRUE, TRUE, TRUE>>, <<TRUE, FALSE, FALSE, FALSE>>,
                 <<TRUE, TRUE, FALSE, FALSE>>, <<TRUE, TRUE, TRUE, FALSE>>,
                 <<TRUE, TRUE, TRUE, TRUE>> },
        c \in {CODER_LATIN1, CODER_UTF16}, v \in Bytes }
Indexes ==
    { [is_Con |-> k[1], type_is_con |-> k[2], con |-> i] :
        k \in { <<FALSE, FALSE>>, <<FALSE, TRUE>>, <<TRUE, TRUE>> },
        i \in -1..(MaxBuf + 1) }

\* fusion-pass state of a behaviour that only runs the StringIndexer
PassIdle ==
    /\ nodes = Base /\ worklist = {} /\ pc = "done" /\ run = MaxRuns
    /\ OptimizeStringConcat = FALSE /\ env = {}
    /\ orig = Base /\ atRun = Base /\ fusions = <<>>

InitIdx ==
    /\ PassIdle
    /\ str \in Strs
    /\ index \in Indexes
    /\ start_idx = 0 /\ end_idx = 0
    /\ littleEndian \in BOOLEAN
    /\ ipc = "new" /\ can = FALSE /\ ret = nullptr /\ intcons = {} /\ reads = {}
    /\ answers = {}

\* a caller asks can_optimize()
CanOptimize ==
    /\ ipc = "new"
    /\ LET c == can_optimize(str, index, start_idx, end_idx)
       IN /\ can' = c.result
          /\ start_idx' = c.start_idx
          /\ end_idx' = c.end_idx
    /\ ipc' = "checked"
    /\ UNCHANGED <<str, index, littleEndian, ret, intcons, reads>>
    /\ UNCHANGED <<passVars, answers>>

\* a caller asks optimize()
Optimize ==
    /\ ipc \in {"new", "checked"}
    /\ LET c == can_optimize(str, index, start_idx, end_idx)
       IN /\ can' = c.result
          /\ start_idx' = c.start_idx
          /\ end_idx' = c.end_idx
    /\ \E ch \in optimize(str, index, start_idx, end_idx, littleEndian) :
          /\ ret' = ch
          /\ intcons' = IF ch = nullptr THEN intcons ELSE intcons \cup {ch}
    /\ reads' = IF can_optimize(str, index, start_idx, end_idx).result
                THEN byte_at_positions(str,
                        can_optimize(str, index, start_idx, end_idx).start_idx)
                ELSE {}
    /\ ipc' = "optimized"
    /\ UNCHANGED <<str, index, littleEndian>>
    /\ UNCHANGED <<passVars, answers>>

NextIdx == CanOptimize \/ Optimize

SpecIdx == InitIdx /\ [][NextIdx]_vars

-----------------------------------------------------------------------------
(* The two signature predicates, asked of one call with an arbitrary target *)

Holders == {StringBuilder_klass, StringBuffer_klass, "AbstractStringBuilder",
            "String", "Object"}
Names == {append_name, "insert", "<init>"}
Signatures == {char_signature, char_char_signature, "(I)", "(Ljava/lang/String;)", "()"}
Methods == {Method(h, n, sg) : h \in Holders, n \in Names, sg \in Signatures}
              \cup {NullMethod}

\* the call under test: the last node of a graph that holds nothing else
SigCall == NBase + 3
SigGraph(m) ==
    Base \o << Value(charCode(1)), Value(charCode(2)),
               Node("CallStaticJava", 0, m,
                    << Start_idx, 2, 3, 4, 5, 6, NBase + 1, NBase + 2 >>) >>

InitSig ==
    /\ nodes \in {SigGraph(m) : m \in Methods}
    /\ worklist = {} /\ pc = "done" /\ run = MaxRuns
    /\ OptimizeStringConcat = FALSE /\ env = {}
    /\ orig = nodes /\ atRun = nodes /\ fusions = <<>>
    /\ IdxIdle
    /\ answers = {}

Answer(pred, result) == [pred |-> pred, result |-> result]
Asked(pred) == \E a \in answers : a.pred = pred

\* a caller asks is_append_char_call(call)
IsAppendCharCall ==
    /\ ~Asked("is_append_char_call")
    /\ answers' = answers \cup
          {Answer("is_append_char_call", is_append_char_call(nodes, SigCall))}
    /\ UNCHANGED <<passVars, idxVars>>

\* a caller asks is_append_char_char_call(call)
IsAppendCharCharCall ==
    /\ ~Asked("is_append_char_char_call")
    /\ answers' = answers \cup
          {Answer("is_append_char_char_call", is_append_char_char_call(nodes, SigCall))}
    /\ UNCHANGED <<passVars, idxVars>>

NextSig == IsAppendCharCall \/ IsAppendCharCharCall

SpecSig == InitSig /\ [][NextSig]_vars

-----------------------------------------------------------------------------
(* Claims about the fusion pass, checked under Spec *)

LastFusion == fusions[Len(fusions)]

\* C1 Order preservation: for a chain of single-character appends on one
\* receiver without control divergence, once optimize() has returned, the
\* append calls on the control path to the Return, each expanded into its
\* operands in order, give exactly the original character sequence.
C1_OrderPreservation ==
    (pc = "done" /\ PlainChain(orig)) =>
        \A r \in Returns(orig) :
            /\ BackCalls(nodes, r).ok
            /\ Flatten(BackCalls(nodes, r).calls) = Flatten(BackCalls(orig, r).calls)

\* C2 Idempotence: a run of optimize() on the graph a complete earlier run
\* produced performs no fusion and leaves the graph as that run left it.
C2_Idempotent ==
    run >= 2 =>
        /\ nodes = atRun
        /\ \A i \in DOMAIN fusions : fusions[i].run = 1

C2_Witness ==
    /\ run = 2 /\ pc = "done"
    /\ fusions # <<>>
    /\ \E n \in Calls(nodes) :
          is_append_char_call(nodes, n) /\ proj_out_or_null(nodes, n, Control) # {}

\* C3 Receiver isolation: every fusion joins two calls whose receiver inputs
\* are the same node; control-adjacent single-character appends of the input
\* graph with distinct receiver nodes are never fused with each other.
C3_ReceiverIsolation ==
    /\ \A i \in DOMAIN fusions :
          fusions[i].call_in[Parms + 1] = fusions[i].next_in[Parms + 1]
    /\ \A x, y \in Calls(orig) :
          (Adjacent(orig, x, y) /\ In(orig, x, Parms) # In(orig, y, Parms)) =>
              \A i \in DOMAIN fusions :
                  ~(fusions[i].call = x /\ fusions[i].next_call = y)

C3_Witness ==
    /\ pc = "done" /\ fusions # <<>>
    /\ \E x, y \in Calls(orig) :
          /\ Adjacent(orig, x, y)
          /\ is_append_char_call(orig, x) /\ is_append_char_call(orig, y)
          /\ In(orig, x, Parms) # In(orig, y, Parms)
          /\ \E i \in DOMAIN fusions : fusions[i].next_call = x

\* C4 Ambiguity is resolved conservatively: a fusion is performed for a
\* candidate only when exactly one of its control successors qualifies; with
\* two or more qualifying successors nothing is returned and nothing is fused.
C4_AmbiguityConservative ==
    \A i \in DOMAIN fusions : Cardinality(fusions[i].candidates) = 1

\* C5 No method, no crash: when append(char,char) resolves on neither class,
\* the graph stays identical to the input graph at every point of optimize(),
\* no call is created and the worklist only holds calls of the initial scan.
C5_NoMethodNoChange ==
    env = {} =>
        /\ nodes = orig
        /\ fusions = <<>>
        /\ worklist \subseteq
              {n \in Calls(orig) : is_append_char_call(orig, n)}

C5_Witness ==
    /\ env = {} /\ pc = "done" /\ OptimizeStringConcat
    /\ \E n \in Calls(nodes) :
          is_append_char_call(nodes, n) /\ find_next_append_char_call(nodes, n) # {}

\* C6 Pairwise chaining, left to right: for the three appends 'a', 'b', 'c'
\* on one receiver, whatever the pop order, once optimize() has returned the
\* control path holds the combined call ('a','b') followed by the single
\* append of 'c', and the decoded output is "abc".
ChainABC(g) == PlainChain(g) /\ Cardinality(Calls(g)) = 3

C6_PairwiseLeftToRight ==
    (pc = "done" /\ OptimizeStringConcat /\ env # {} /\ ChainABC(orig)) =>
        \A r \in Returns(orig) :
            /\ BackCalls(nodes, r).ok
            /\ BackCalls(nodes, r).calls = << <<97, 98>>, <<99>> >>

\* C10 Splice-out of next_call: after a fusion step every former use of
\* next_call refers to next_call's control predecessor, none refers to
\* next_call, and the control path from those uses leads back to the new call.
RECURSIVE CtrlReaches(_, _, _)
CtrlReaches(g, n, target) ==
    IF n = 0 THEN FALSE
    ELSE IF n = target THEN TRUE
    ELSE IF g[n].kind \in {"Proj", "Return", "CallStaticJava"}
         THEN CtrlReaches(g, In(g, n, Control), target)
    ELSE FALSE

C10_SpliceOut ==
    fusions # <<>> =>
        \A u \in LastFusion.next_uses :
            /\ LastFusion.next_call \notin Range(nodes[u].in)
            /\ LastFusion.next_in[Control + 1] \in Range(nodes[u].in)
            /\ CtrlReaches(nodes, u, LastFusion.new_call)

\* the nodes reachable from the exits of the graph over input edges
RECURSIVE ReachIn(_, _, _)
ReachIn(g, frontier, seen) ==
    IF frontier = {} THEN seen
    ELSE LET nxt == (UNION {Range(g[n].in) : n \in frontier} \ {0}) \ seen
         IN ReachIn(g, nxt, seen \cup nxt)

Live(g) == ReachIn(g, Returns(g), Returns(g))

\* every input of a live node is a node of the graph, and the control input of
\* every live control node comes from a node that produces control
Legal(g) ==
    \A n \in Live(g) :
        /\ \A j \in DOMAIN g[n].in : g[n].in[j] \in DOMAIN g
        /\ g[n].kind \in {"Proj", "Return", "CallStaticJava"}
              => is_CFG(g, In(g, n, Control))

\* C11 Interruptibility: at every boundary between two worklist iterations of
\* optimize(), after any number of fusion steps, the graph is legal (live
\* nodes only have live inputs, control edges come from control-producing
\* nodes) and every chain decodes to the append content of the original graph.
C11_Interruptible ==
    pc = "loop" =>
        /\ Legal(nodes)
        /\ \A r \in Returns(orig) :
              BackCalls(orig, r).ok =>
                  /\ BackCalls(nodes, r).ok
                  /\ Flatten(BackCalls(nodes, r).calls)
                        = Flatten(BackCalls(orig, r).calls)

\* no two nodes of the graph have the same kind, target and inputs
NoDuplicates(g) == \A a, b \in DOMAIN g : a # b => g[a] # g[b]

\* C12 Uniqueness under interning: on an input graph without structurally
\* identical nodes, no state of the pass has two structurally identical nodes,
\* and the node every fusion step puts in the place of call and pushes on the
\* worklist is the node transform returned for the call it built (an equal
\* append(char,char) call already in the graph, when there is one).
C12_CanonicalInterned ==
    NoDuplicates(orig) =>
        /\ NoDuplicates(nodes)
        /\ \A i \in DOMAIN fusions : fusions[i].new_call = fusions[i].transformed

\* C13 Shape of the combined call: in every fusion step the new call has the
\* control, I/O, memory, frame and return-address inputs of call, call's
\* receiver, call's character argument as first and next_call's as second
\* character argument; every former use of call uses the new call and no
\* longer uses call.
C13_CombinedShape ==
    \A i \in DOMAIN fusions :
        LET f == fusions[i]
            new_in == nodes[f.new_call].in
        IN /\ Len(new_in) = Parms + 3
           /\ \A k \in {Control, I_O, Memory, FramePtr, ReturnAdr, Parms} :
                 new_in[k + 1] = f.call_in[k + 1]
           /\ new_in[Parms + 2] = f.call_in[Parms + 2]
           /\ new_in[Parms + 3] = f.next_in[Parms + 2]
           /\ \A u \in f.call_uses :
                 /\ f.new_call \in Range(nodes[u].in)
                 /\ f.call \notin Range(nodes[u].in)

\* the nodes the pass created
Created == DOMAIN nodes \ DOMAIN orig

\* C15 Strictly pairwise fusion: every node the pass creates is a call with
\* exactly two character arguments that is an append(char,char) call and not
\* a single-character append; no created call is the first or the second
\* node of a fusion; no call of the graph has three or more character
\* arguments.
C15_StrictlyPairwise ==
    /\ \A n \in Created :
          /\ is_CallStaticJava(nodes, n)
          /\ Len(nodes[n].in) = Parms + 3
          /\ is_append_char_char_call(nodes, n)
          /\ ~is_append_char_call(nodes, n)
          /\ \A i \in DOMAIN fusions :
                fusions[i].call # n /\ fusions[i].next_call # n
    /\ Created = {fusions[i].new_call : i \in DOMAIN fusions}
    /\ \A n \in Calls(nodes) : Len(nodes[n].in) <= Parms + 3

C15_Witness ==
    /\ pc = "done" /\ ChainABC(orig)
    /\ fusions # <<>>
    /\ LastFusion.new_call \notin worklist
    /\ \E c \in Calls(orig) :
          /\ In(nodes, c, Parms) = In(nodes, LastFusion.new_call, Parms)
          /\ \A i \in DOMAIN fusions : fusions[i].call # c /\ fusions[i].next_call # c

\* C16 Declined candidate: a loop iteration that pops a validated candidate
\* without a fusible successor (no qualifying control successor, or more than
\* one) leaves the graph unchanged and pushes nothing; and no iteration pushes
\* a node that was already in the graph, so a declined candidate never comes
\* back on the worklist in the same run.
C16_DeclineFrame ==
    [][pc = "loop" =>
          /\ \A n \in worklist \ worklist' :
                (/\ is_CallStaticJava(nodes, n) /\ is_append_char_call(nodes, n)
                 /\ Cardinality(FusibleCandidates(nodes, n)) # 1)
                   => (nodes' = nodes /\ worklist' \subseteq worklist)
          /\ (worklist' \ worklist) \cap DOMAIN nodes = {}]_vars

\* the two calls a fusion consumed
Consumed(f) == {f.call, f.next_call}

\* C18 Each append is consumed at most once: within one run of optimize() no
\* node is the call or the next_call of two fusions, and the two calls of a
\* fusion differ; every consumed node is a single-character append of the
\* graph the run started on.
C18_ConsumedOnce ==
    /\ \A i \in DOMAIN fusions :
          /\ fusions[i].call # fusions[i].next_call
          /\ Consumed(fusions[i]) \cap Created = {}
    /\ \A i, j \in DOMAIN fusions :
          (i # j /\ fusions[i].run = fusions[j].run) =>
              Consumed(fusions[i]) \cap Consumed(fusions[j]) = {}

\* the second call of the chain was fused with the third while the first was
\* still on the worklist; the first was then popped with the replaced call
\* still attached below its control projection
C18_Witness ==
    /\ pc = "done" /\ ChainABC(orig)
    /\ Len(fusions) = 1
    /\ LastFusion.call = callId(2)
    /\ callId(2) \in Outs(nodes, qId(1))
    /\ proj_out_or_null(nodes, callId(1), Control) # {}

\* C19 Target class consistency: in every fusion the targets of call and of
\* next_call are declared on the same class, and the target of the combined
\* call is declared on that class too.
C19_SameTargetClass ==
    \A i \in DOMAIN fusions :
        /\ nodes[fusions[i].call].method.holder
              = nodes[fusions[i].next_call].method.holder
        /\ nodes[fusions[i].new_call].method.holder
              = nodes[fusions[i].call].method.holder

\* the calls the scan of the current run found, and the fusions of that run
ScanCount ==
    Cardinality({n \in DOMAIN atRun :
                    is_CallStaticJava(atRun, n) /\ is_append_char_call(atRun, n)})
FusionsOfRun == Cardinality({i \in DOMAIN fusions : fusions[i].run = run})

\* C14 Termination: every run of optimize() that entered the loop reaches an
\* empty worklist and returns; each iteration takes one node off the worklist
\* and puts at most one on it; the fusions of a run never outnumber the
\* single-character append calls its scan found.
C14_Termination ==
    /\ (pc = "loop") ~> (pc = "done" /\ worklist = {})
    /\ [][(pc = "loop" /\ pc' = "loop") =>
             /\ Cardinality(worklist \ worklist') = 1
             /\ Cardinality(worklist' \ worklist) <= 1]_vars
    /\ [](FusionsOfRun <= ScanCount)

C14_Witness ==
    /\ pc = "done" /\ worklist = {} /\ OptimizeStringConcat
    /\ ScanCount >= 3 /\ FusionsOfRun >= 1

C13_Witness ==
    /\ pc = "done" /\ fusions # <<>>
    /\ LastFusion.call_uses # {}
    /\ In(nodes, LastFusion.new_call, Control) # Start_idx
    /\ nodes[In(nodes, LastFusion.new_call, Parms + 1)].con
          # nodes[In(nodes, LastFusion.new_call, Parms + 2)].con

-----------------------------------------------------------------------------
(* Claims about the signature predicates, checked under SpecSig *)

SigMethod == nodes[SigCall].method
Resolved(m) == m # NullMethod
BuilderOrBuffer(m) == m.holder \in {StringBuilder_klass, StringBuffer_klass}

\* C17 Signature matching: is_append_char_call answers true exactly for a
\* resolved target declared on StringBuilder or StringBuffer, named append,
\* with the single-char signature; is_append_char_char_call exactly for the
\* same classes and name with the two-char signature; the two never both
\* answer true of one call, and an unresolved target gets false from both.
C17_SignatureMatching ==
    /\ \A a \in answers :
          /\ a.pred = "is_append_char_call" =>
                (a.result <=> /\ Resolved(SigMethod) /\ BuilderOrBuffer(SigMethod)
                              /\ SigMethod.name = "append"
                              /\ SigMethod.sig = "(C)")
          /\ a.pred = "is_append_char_char_call" =>
                (a.result <=> /\ Resolved(SigMethod) /\ BuilderOrBuffer(SigMethod)
                              /\ SigMethod.name = "append"
                              /\ SigMethod.sig = "(CC)")
          /\ ~Resolved(SigMethod) => ~a.result
    /\ \A a, b \in answers : (a.result /\ b.result) => a = b

C17_Witness ==
    /\ Answer("is_append_char_call", FALSE) \in answers
    /\ Answer("is_append_char_char_call", TRUE) \in answers
    /\ SigMethod.holder = "StringBuffer"

-----------------------------------------------------------------------------
(* Claims about the StringIndexer, checked under SpecIdx *)

\* the number of characters of a constant string, by the encoding rule
DecodedLength(s) ==
    IF s.coder = CODER_UTF16 THEN Len(s.value) \div 2 ELSE Len(s.value)

\* a graph constant that references a known string object with its byte array
KnownConstantString(s) ==
    s.is_Con /\ s.isa_oopptr /\ s.const_oop /\ s.value_is_type_array
ConstantIndex(ix) == ix.is_Con /\ ix.type_is_con

Foldable(s, ix) ==
    /\ KnownConstantString(s)
    /\ ConstantIndex(ix)
    /\ 0 <= ix.con /\ ix.con < DecodedLength(s)

\* C7 can_optimize() is true exactly when the string is a constant with a
\* known constant object, the index is a constant integer and
\* 0 <= index < decoded_length (buffer length for Latin1, half of it for
\* UTF16); index -1 and index = decoded_length give false.
C7_CanFoldIff ==
    ipc \in {"checked", "optimized"} =>
        /\ can <=> Foldable(str, index)
        /\ (index.con = -1 \/ index.con = DecodedLength(str)) => ~can

C7_Witness ==
    /\ ipc = "checked" /\ ~can
    /\ KnownConstantString(str) /\ ConstantIndex(index)
    /\ str.coder = CODER_UTF16 /\ Len(str.value) = 3
    /\ index.con = DecodedLength(str)

\* C8 Constant fold correctness: when can_optimize() holds, optimize()
\* returns the literal of the character at the index: for Latin1 the byte at
\* index as a value in 0..255; for UTF16 the code unit made of the bytes at
\* 2*index and 2*index+1, the first being the low byte on a little-endian
\* build and the high byte on a big-endian one, a value in 0..65535.
Unsigned(b) == IF b < 0 THEN b + 256 ELSE b

CharAt(s, i, le) ==
    IF s.coder = CODER_LATIN1 THEN Unsigned(s.value[i + 1])
    ELSE IF le THEN Unsigned(s.value[2 * i + 1]) + 256 * Unsigned(s.value[2 * i + 2])
    ELSE 256 * Unsigned(s.value[2 * i + 1]) + Unsigned(s.value[2 * i + 2])

C8_FoldValue ==
    (ipc = "optimized" /\ can) =>
        /\ ret = CharAt(str, index.con, littleEndian)
        /\ ret \in intcons
        /\ str.coder = CODER_LATIN1 => ret \in 0..255
        /\ ret \in 0..65535
        /\ (str.coder = CODER_LATIN1 /\ str.value = <<65, 66>> /\ index.con = 1)
              => ret = 66

C8_Witness ==
    /\ ipc = "optimized" /\ can
    /\ str.coder = CODER_UTF16 /\ str.value = <<65, -128, 66>>
    /\ index.con = 0 /\ ~littleEndian
    /\ ret = 16768

\* C9 No speculative folding: whenever the inputs are not foldable,
\* optimize() returns nullptr and makes no literal node.
C9_NoSpeculativeFold ==
    (ipc = "optimized" /\ ~Foldable(str, index)) =>
        /\ ret = nullptr
        /\ intcons = {}

C9_Witness ==
    /\ ipc = "optimized" /\ ret = nullptr
    /\ KnownConstantString(str) /\ ConstantIndex(index)
    /\ str.value # <<>> /\ index.con = DecodedLength(str)

\* C20 In-bounds reads: whenever can_optimize() held in optimize(), every
\* array position read lies in 0 .. length - 1: the index for Latin1, 2*index
\* and 2*index + 1 for UTF16, also for an odd array length; and the index
\* read at is the constant index the can_optimize() call inside optimize()
\* validated.
C20_InBoundsReads ==
    (ipc = "optimized" /\ can) =>
        /\ start_idx = index.con
        /\ reads # {}
        /\ \A pos \in reads : 0 <= pos /\ pos < Len(str.value)
        /\ str.coder = "LATIN1" => reads = {index.con}
        /\ str.coder = "UTF16" => reads = {2 * index.con, 2 * index.con + 1}

C20_Witness ==
    /\ ipc = "optimized" /\ can
    /\ str.coder = "UTF16" /\ Len(str.value) = 3
    /\ reads = {0, 1}

====
